---- MODULE Spec2Model ----
(***************************************************************************)
(* Model of the Pushbutton library (src/src/Pushbutton.cpp,                *)
(* src/include/Pushbutton.h): one pushbutton object, its configuration     *)
(* calls, the polled update() state machine and the event queries.         *)
(*                                                                         *)
(* Time is in milliseconds.  The two elapsedMillis timers advance together *)
(* in steps of TickMs and saturate at DelayCap and LockoutCap, which are   *)
(* above every duration the timer is compared with; the code only compares *)
(* a timer with a configured duration (>), so all values at or above the   *)
(* cap behave alike.                                                       *)
(***************************************************************************)
EXTENDS Integers, Sequences, FiniteSets, TLC

\* ------------------------------------------------------------------ bounds

\* Granularity of the passage of time between two calls (ms).
TickMs == 100

\* --------------------------------------------------- constants of the code

DEBOUNCE_PERIOD == 80
DOUBLETAP_DELAY == 300
LONGPRESS_DURATION == 1000

NO_PRESS == 0
SINGLE_TAP == 1
DOUBLE_TAP == 2
LONG_PRESS == 4

UNINIT == "UNINIT"
RDY == "RDY"
WAIT_LONG == "WAIT_LONG"
WAIT_DOUBLE == "WAIT_DOUBLE"
WAIT_INACTIVE == "WAIT_INACTIVE"

\* Logic levels of the input pin (LOW, HIGH) and of the actLevel parameter.
Levels == {0, 1}

\* Arguments the host passes to enableEvents (an int used as a bit field).
EventSels == {0, 1, 2, 4, 6}

\* Arguments the host passes to setDelays; 0 means "leave unchanged".
DbPeriodArgs == {0, 100}
DoubleDlyArgs == {0, 200}
LongDurArgs == {0, 500}

Max(a, b) == IF a >= b THEN a ELSE b
Min(a, b) == IF a <= b THEN a ELSE b

\* Saturation values of the timers.  delayTimer is compared with doubleTapDelay
\* and longPressDuration, lockoutTimer with debouncePeriod; lockoutTimer is kept
\* exact up to the double-tap window as well, so that it also tells the time
\* since a release was sampled.
DelayCap == Max(LONGPRESS_DURATION, DOUBLETAP_DELAY) + TickMs
LockoutCap == Max(DOUBLETAP_DELAY, DEBOUNCE_PERIOD) + TickMs

\* ------------------------------------------------------------------- state

VARIABLES
  pb,             \* the pushbuttonStruct of the object
  last,           \* the last call made on the object and what it did
  pressEvents,    \* number of events update() assigned since the last press was sampled in RDY
  bounce,         \* input script: "free", or a single active sample ("armed", then "done")
  optEver         \* enableEvents was called with DOUBLE_TAP or LONG_PRESS at least once

vars == <<pb, last, pressEvents, bounce, optEver>>

\* value of an int-to-bool conversion of (x & bit), bit a power of two
BitSet(x, bit) == ((x \div bit) % 2) = 1

\* pushbutton::pushbutton : the struct after construction
Construct(actLevel, initActive) ==
  [ activeLevel |-> actLevel,
    state |-> UNINIT,
    event |-> NO_PRESS,
    delayTimer |-> 0,
    lockoutTimer |-> 0,
    debouncePeriod |-> DEBOUNCE_PERIOD,
    doubleTapDelay |-> DOUBLETAP_DELAY,
    longPressDuration |-> LONGPRESS_DURATION,
    active |-> initActive,
    lockout |-> FALSE,
    doubleTapEnabled |-> FALSE,
    longPressEnabled |-> FALSE ]

\* record of a call: op, arguments, boolean result, event result, whether the
\* call before it was the same query returning true, and for update() the
\* state, lockout and pending event at entry and the sequences of values it
\* assigned to pb.event and pb.state
Call(op, ret, ev) ==
  [ op |-> op, args |-> <<>>, ret |-> ret, ev |-> ev,
    again |-> (last.op = op /\ last.ret),
    from |-> "-", locked |-> FALSE, was |-> NO_PRESS,
    evs |-> <<>>, sts |-> <<>> ]

Init ==
  /\ \E actLevel \in Levels : pb = Construct(actLevel, FALSE)
  /\ last = [ op |-> "pushbutton", args |-> <<>>, ret |-> FALSE, ev |-> NO_PRESS, again |-> FALSE,
              from |-> "-", locked |-> FALSE, was |-> NO_PRESS,
              evs |-> <<>>, sts |-> <<>> ]
  /\ pressEvents = 0
  /\ bounce = "free"
  /\ optEver = FALSE

\* ------------------------------------------------------------ enableEvents

\* fault: enableEvents only adds to the gestures enabled before
enableEvents_Accumulates(p, eventSel) ==
  [p EXCEPT !.doubleTapEnabled = @ \/ BitSet(eventSel, DOUBLE_TAP),
            !.longPressEnabled = @ \/ BitSet(eventSel, LONG_PRESS)]

enableEvents(p, eventSel) ==
  [p EXCEPT !.doubleTapEnabled = BitSet(eventSel, DOUBLE_TAP),
            !.longPressEnabled = BitSet(eventSel, LONG_PRESS)]

EnableEvents ==
  \E eventSel \in EventSels :
    /\ pb' = enableEvents(pb, eventSel)
    /\ last' = [Call("enableEvents", FALSE, NO_PRESS) EXCEPT !.args = <<eventSel>>]
    /\ optEver' = (optEver \/ BitSet(eventSel, DOUBLE_TAP) \/ BitSet(eventSel, LONG_PRESS))
    /\ UNCHANGED <<pressEvents, bounce>>

\* --------------------------------------------------------------- setDelays

\* fault: the later arguments are only looked at when dbPeriod is given
setDelays_Nested(p, dbPeriod, doubleDly, longDur) ==
  IF dbPeriod > 0
    THEN LET p1 == [p EXCEPT !.debouncePeriod = dbPeriod]
             p2 == IF doubleDly > 0 THEN [p1 EXCEPT !.doubleTapDelay = doubleDly] ELSE p1
         IN  IF longDur > 0 THEN [p2 EXCEPT !.longPressDuration = longDur] ELSE p2
    ELSE p

setDelays(p, dbPeriod, doubleDly, longDur) ==
  LET p1 == IF dbPeriod > 0 THEN [p EXCEPT !.debouncePeriod = dbPeriod] ELSE p
      p2 == IF doubleDly > 0 THEN [p1 EXCEPT !.doubleTapDelay = doubleDly] ELSE p1
  IN  IF longDur > 0 THEN [p2 EXCEPT !.longPressDuration = longDur] ELSE p2

SetDelays ==
  \E dbPeriod \in DbPeriodArgs, doubleDly \in DoubleDlyArgs, longDur \in LongDurArgs :
    /\ pb' = setDelays(pb, dbPeriod, doubleDly, longDur)
    /\ last' = [Call("setDelays", FALSE, NO_PRESS)
                  EXCEPT !.args = <<dbPeriod, doubleDly, longDur>>]
    /\ UNCHANGED <<pressEvents, bounce, optEver>>

\* ------------------------------------------------------------------ update
\* update() runs on an execution context x: the struct together with the
\* sequences of values the call has assigned to pb.event and pb.state so far.

SetEvent(x, e) == [x EXCEPT !.pb.event = e, !.evs = Append(@, e)]
SetState(x, s) == [x EXCEPT !.pb.state = s, !.sts = Append(@, s)]
StartLockout(x) == [x EXCEPT !.pb.lockout = TRUE, !.pb.lockoutTimer = 0]

\* first call to update(): leave UNINIT
UpdateUninit(x) ==
  IF x.pb.state = UNINIT THEN SetState(x, RDY) ELSE x

\* fault: >= instead of > in the test of the end of the lockout
UpdateLockout_AtPeriod(x) ==
  IF x.pb.lockoutTimer >= x.pb.debouncePeriod
    THEN [x EXCEPT !.pb.lockout = FALSE]
    ELSE x

\* in debounce lockout: only the end of the lockout is detected
UpdateLockout(x) ==
  IF x.pb.lockoutTimer > x.pb.debouncePeriod
    THEN [x EXCEPT !.pb.lockout = FALSE]
    ELSE x

\* pb.active = (digitalReadFast(pb.pinNum) == pb.activeLevel)
Sample(x, level) == [x EXCEPT !.pb.active = (level = x.pb.activeLevel)]

\* Variants of the handlers below, each with one fault; the claims are checked
\* to tell them from the handlers.

\* fault: a press is never classified at once, even with no optional gesture
UpdateRDY_AlwaysWaits(x) ==
  IF x.pb.active
    THEN SetState([StartLockout(x) EXCEPT !.pb.delayTimer = 0], WAIT_LONG)
    ELSE x

UpdateRDY(x) ==
  IF x.pb.active
    THEN LET y == [StartLockout(x) EXCEPT !.pb.delayTimer = 0]
         IN  IF y.pb.doubleTapEnabled \/ y.pb.longPressEnabled
               THEN SetState(y, WAIT_LONG)
               ELSE SetState(SetEvent(y, SINGLE_TAP), WAIT_INACTIVE)
    ELSE x

\* fault: LONG_PRESS is recorded without leaving WAIT_LONG
UpdateWAIT_LONG_NoLeave(x) ==
  IF x.pb.active
    THEN IF x.pb.longPressEnabled
           THEN IF x.pb.delayTimer > x.pb.longPressDuration
                  THEN SetEvent(x, LONG_PRESS)
                  ELSE x
           ELSE x
    ELSE LET y == StartLockout(x)
         IN  IF y.pb.doubleTapEnabled
               THEN SetState(y, WAIT_DOUBLE)
               ELSE SetState(SetEvent(y, SINGLE_TAP), RDY)

\* fault: the release restarts delayTimer
UpdateWAIT_LONG_RestartTimer(x) ==
  IF x.pb.active
    THEN IF x.pb.longPressEnabled
           THEN IF x.pb.delayTimer > x.pb.longPressDuration
                  THEN SetState(SetEvent(x, LONG_PRESS), WAIT_INACTIVE)
                  ELSE x
           ELSE x
    ELSE LET y == [StartLockout(x) EXCEPT !.pb.delayTimer = 0]
         IN  IF y.pb.doubleTapEnabled
               THEN SetState(y, WAIT_DOUBLE)
               ELSE SetState(SetEvent(y, SINGLE_TAP), RDY)

\* fault: >= instead of > in the long-press test
UpdateWAIT_LONG_AtThreshold(x) ==
  IF x.pb.active
    THEN IF x.pb.longPressEnabled
           THEN IF x.pb.delayTimer >= x.pb.longPressDuration
                  THEN SetState(SetEvent(x, LONG_PRESS), WAIT_INACTIVE)
                  ELSE x
           ELSE x
    ELSE LET y == StartLockout(x)
         IN  IF y.pb.doubleTapEnabled
               THEN SetState(y, WAIT_DOUBLE)
               ELSE SetState(SetEvent(y, SINGLE_TAP), RDY)

\* fault: the release starts no lockout
UpdateWAIT_LONG_NoReleaseLockout(x) ==
  IF x.pb.active
    THEN IF x.pb.longPressEnabled
           THEN IF x.pb.delayTimer > x.pb.longPressDuration
                  THEN SetState(SetEvent(x, LONG_PRESS), WAIT_INACTIVE)
                  ELSE x
           ELSE x
    ELSE IF x.pb.doubleTapEnabled
           THEN SetState(x, WAIT_DOUBLE)
           ELSE SetState(SetEvent(x, SINGLE_TAP), RDY)

UpdateWAIT_LONG(x) ==
  IF x.pb.active
    THEN IF x.pb.longPressEnabled
           THEN IF x.pb.delayTimer > x.pb.longPressDuration
                  THEN SetState(SetEvent(x, LONG_PRESS), WAIT_INACTIVE)
                  ELSE x
           ELSE x
    ELSE LET y == StartLockout(x)
         IN  IF y.pb.doubleTapEnabled
               THEN SetState(y, WAIT_DOUBLE)
               ELSE SetState(SetEvent(y, SINGLE_TAP), RDY)

\* fault: the window expires without recording the single tap
UpdateWAIT_DOUBLE_SilentExpiry(x) ==
  IF x.pb.delayTimer > x.pb.doubleTapDelay
    THEN SetState(x, RDY)
    ELSE IF x.pb.active
           THEN SetState(SetEvent(StartLockout(x), DOUBLE_TAP), WAIT_INACTIVE)
           ELSE x

\* fault: the second press is tested before the expiry of the window
UpdateWAIT_DOUBLE_PressFirst(x) ==
  IF x.pb.active
    THEN SetState(SetEvent(StartLockout(x), DOUBLE_TAP), WAIT_INACTIVE)
    ELSE IF x.pb.delayTimer > x.pb.doubleTapDelay
           THEN SetState(SetEvent(x, SINGLE_TAP), RDY)
           ELSE x

\* fault: the double-tap window never expires
UpdateWAIT_DOUBLE_NoExpiry(x) ==
  IF x.pb.active
    THEN SetState(SetEvent(StartLockout(x), DOUBLE_TAP), WAIT_INACTIVE)
    ELSE x

UpdateWAIT_DOUBLE(x) ==
  IF x.pb.delayTimer > x.pb.doubleTapDelay
    THEN SetState(SetEvent(x, SINGLE_TAP), RDY)
    ELSE IF x.pb.active
           THEN SetState(SetEvent(StartLockout(x), DOUBLE_TAP), WAIT_INACTIVE)
           ELSE x

\* fault: a button still held is recorded again
UpdateWAIT_INACTIVE_Repeat(x) ==
  IF ~x.pb.active
    THEN SetState(StartLockout(x), RDY)
    ELSE SetEvent(x, SINGLE_TAP)

UpdateWAIT_INACTIVE(x) ==
  IF ~x.pb.active
    THEN SetState(StartLockout(x), RDY)
    ELSE x

\* fault: the call that ends the lockout goes on to sample the input
update_SampleOnClear(x0, level) ==
  LET x == UpdateUninit(x0)
      u == IF x.pb.lockout THEN UpdateLockout(x) ELSE x
  IN  IF u.pb.lockout
        THEN u
        ELSE LET y == Sample(u, level)
             IN  CASE y.pb.state = RDY -> UpdateRDY(y)
                   [] y.pb.state = WAIT_LONG -> UpdateWAIT_LONG(y)
                   [] y.pb.state = WAIT_DOUBLE -> UpdateWAIT_DOUBLE(y)
                   [] y.pb.state = WAIT_INACTIVE -> UpdateWAIT_INACTIVE(y)
                   [] OTHER -> y

\* fault: no break at the end of case WAIT_DOUBLE, which runs on into
\* case WAIT_INACTIVE
update_MissingBreak(x0, level) ==
  LET x == UpdateUninit(x0)
  IN  IF x.pb.lockout
        THEN UpdateLockout(x)
        ELSE LET y == Sample(x, level)
             IN  CASE y.pb.state = RDY -> UpdateRDY(y)
                   [] y.pb.state = WAIT_LONG -> UpdateWAIT_LONG(y)
                   [] y.pb.state = WAIT_DOUBLE -> UpdateWAIT_INACTIVE(UpdateWAIT_DOUBLE(y))
                   [] y.pb.state = WAIT_INACTIVE -> UpdateWAIT_INACTIVE(y)
                   [] OTHER -> y

update(x0, level) ==
  LET x == UpdateUninit(x0)
  IN  IF x.pb.lockout
        THEN UpdateLockout(x)
        ELSE LET y == Sample(x, level)
             IN  CASE y.pb.state = RDY -> UpdateRDY(y)
                   [] y.pb.state = WAIT_LONG -> UpdateWAIT_LONG(y)
                   [] y.pb.state = WAIT_DOUBLE -> UpdateWAIT_DOUBLE(y)
                   [] y.pb.state = WAIT_INACTIVE -> UpdateWAIT_INACTIVE(y)
                   [] OTHER -> y

\* the call sampled the input (no lockout at entry) and found it active
SampledActive(p, level) == ~p.lockout /\ level = p.activeLevel

\* the call sampled a new press: active in RDY (or in the first call) outside lockout
SampledPress(p, level) == SampledActive(p, level) /\ p.state \in {UNINIT, RDY}

UpdateWith(levels) ==
  \E level \in levels :
    LET x == update([pb |-> pb, evs |-> <<>>, sts |-> <<>>], level)
    IN  /\ pb' = x.pb
        /\ last' = [ op |-> "update", args |-> <<>>, ret |-> FALSE, ev |-> NO_PRESS, again |-> FALSE,
                     from |-> pb.state, locked |-> pb.lockout, was |-> pb.event,
                     evs |-> x.evs, sts |-> x.sts ]
        /\ pressEvents' = IF SampledPress(pb, level)
                            THEN Len(x.evs)
                            ELSE Min(pressEvents + Len(x.evs), 2)
        /\ bounce' = IF bounce = "armed" /\ SampledActive(pb, level) THEN "done" ELSE bounce
        /\ UNCHANGED optEver

Update == UpdateWith(Levels)

\* ----------------------------------------------------------------- queries

\* fault: singleTap clears a pending event of any kind
singleTap_ClearsAny(p) ==
  [pb |-> [p EXCEPT !.event = NO_PRESS], ret |-> (p.event = SINGLE_TAP)]

\* fault: doubleTap leaves the event pending
doubleTap_NoClear(p) ==
  [pb |-> p, ret |-> (p.event = DOUBLE_TAP)]

\* singleTap(), doubleTap(), longPress(): [pb, ret]
singleTap(p) ==
  IF p.event = SINGLE_TAP
    THEN [pb |-> [p EXCEPT !.event = NO_PRESS], ret |-> TRUE]
    ELSE [pb |-> p, ret |-> FALSE]

doubleTap(p) ==
  IF p.event = DOUBLE_TAP
    THEN [pb |-> [p EXCEPT !.event = NO_PRESS], ret |-> TRUE]
    ELSE [pb |-> p, ret |-> FALSE]

longPress(p) ==
  IF p.event = LONG_PRESS
    THEN [pb |-> [p EXCEPT !.event = NO_PRESS], ret |-> TRUE]
    ELSE [pb |-> p, ret |-> FALSE]

\* fault: eventDetected consumes the event it reports
eventDetected_Clears(p) ==
  [pb |-> [p EXCEPT !.event = NO_PRESS], ret |-> (p.event # NO_PRESS)]

eventDetected(p) == [pb |-> p, ret |-> (p.event # NO_PRESS)]

\* fault: getEvent leaves the event pending
getEvent_NoClear(p) == [pb |-> p, ret |-> p.event]

getEvent(p) == [pb |-> [p EXCEPT !.event = NO_PRESS], ret |-> p.event]

SingleTap ==
  /\ pb' = singleTap(pb).pb
  /\ last' = Call("singleTap", singleTap(pb).ret, NO_PRESS)
  /\ UNCHANGED <<pressEvents, bounce, optEver>>

DoubleTap ==
  /\ pb' = doubleTap(pb).pb
  /\ last' = Call("doubleTap", doubleTap(pb).ret, NO_PRESS)
  /\ UNCHANGED <<pressEvents, bounce, optEver>>

LongPress ==
  /\ pb' = longPress(pb).pb
  /\ last' = Call("longPress", longPress(pb).ret, NO_PRESS)
  /\ UNCHANGED <<pressEvents, bounce, optEver>>

EventDetected ==
  /\ pb' = eventDetected(pb).pb
  /\ last' = Call("eventDetected", eventDetected(pb).ret, NO_PRESS)
  /\ UNCHANGED <<pressEvents, bounce, optEver>>

GetEvent ==
  /\ pb' = getEvent(pb).pb
  /\ last' = Call("getEvent", FALSE, getEvent(pb).ret)
  /\ UNCHANGED <<pressEvents, bounce, optEver>>

\* -------------------------------------------------------------------- time

\* elapsedMillis: both timers follow the millisecond clock
Elapse(t, cap) == Min(t + TickMs, cap)

Tick ==
  /\ pb.delayTimer < DelayCap \/ pb.lockoutTimer < LockoutCap
  /\ pb' = [pb EXCEPT !.delayTimer = Elapse(@, DelayCap),
                      !.lockoutTimer = Elapse(@, LockoutCap)]
  /\ UNCHANGED <<last, pressEvents, bounce, optEver>>

\* ----------------------------------------------------------- specification

Next ==
  \/ EnableEvents
  \/ SetDelays
  \/ Update
  \/ SingleTap
  \/ DoubleTap
  \/ LongPress
  \/ EventDetected
  \/ GetEvent
  \/ Tick

Spec == Init /\ [][Next]_vars

\* Input script of a contact bounce: starting with the object as constructed,
\* the host polls freely, but the input is sampled active in at most one
\* update() call; every later sample finds it inactive.
InitBounce ==
  /\ \E actLevel \in Levels : pb = Construct(actLevel, FALSE)
  /\ last = [ op |-> "pushbutton", args |-> <<>>, ret |-> FALSE, ev |-> NO_PRESS, again |-> FALSE,
              from |-> "-", locked |-> FALSE, was |-> NO_PRESS,
              evs |-> <<>>, sts |-> <<>> ]
  /\ pressEvents = 0
  /\ bounce = "armed"
  /\ optEver = FALSE

UpdateBounce ==
  UpdateWith({level \in Levels : bounce = "done" => level # pb.activeLevel})

NextBounce ==
  \/ EnableEvents
  \/ SetDelays
  \/ UpdateBounce
  \/ SingleTap
  \/ DoubleTap
  \/ LongPress
  \/ EventDetected
  \/ GetEvent
  \/ Tick

SpecBounce == InitBounce /\ [][NextBounce]_vars

\* The host of main.cpp with a final release: the object is configured in
\* setup(), before the first update(); loop() then calls update() again and
\* again and takes the events with getEvent(), while the two elapsedMillis
\* timers advance. At some point the button is released for good, and every
\* later update() samples the input inactive.
SetupEnableEvents == pb.state = UNINIT /\ EnableEvents

SetupSetDelays == pb.state = UNINIT /\ SetDelays

Release ==
  /\ bounce = "free"
  /\ bounce' = "released"
  /\ UNCHANGED <<pb, last, pressEvents, optEver>>

UpdateLive ==
  UpdateWith({level \in Levels : bounce = "released" => level # pb.activeLevel})

NextLive ==
  \/ SetupEnableEvents
  \/ SetupSetDelays
  \/ UpdateLive
  \/ GetEvent
  \/ Tick
  \/ Release

SpecLive ==
  /\ Init
  /\ [][NextLive]_vars
  /\ WF_vars(UpdateLive)
  /\ WF_vars(Tick)

\* ------------------------------------------------------------------ claims

\* a step that is a call of update()
UpdateCall == last'.op = "update" /\ Update

Enabled(p) == p.doubleTapEnabled \/ p.longPressEnabled

\* C1 (as stated): update never assigns pb.event while an event is pending,
\* even when the host never consumes events.
C1_NeverAssignsWhilePending ==
  [][UpdateCall => (pb.event # NO_PRESS => last'.evs = <<>>)]_vars

\* C1 (amended): update assigns pb.event at most once per press cycle, that is
\* between two update calls that sample a new press in RDY; an event still
\* pending from an earlier press is overwritten when the next press is
\* classified.
C1_OneEventPerPress ==
  pressEvents <= 1

C1_Witness ==
  /\ last.op = "update"
  /\ last.was # NO_PRESS
  /\ Len(last.evs) = 1
  /\ pressEvents = 1

\* C2 (as stated): when the input is sampled active in a single update call
\* and inactive ever after, no event is ever pending.
C2_BounceRejected ==
  pb.event = NO_PRESS

\* C2 (amended): a single active sample in RDY is not rejected; it registers
\* as a press that yields SINGLE_TAP exactly once (never DOUBLE_TAP or
\* LONG_PRESS): no event is assigned before the active sample, exactly one
\* has been assigned whenever the machine is in WAIT_INACTIVE or back in RDY
\* after it, and none yet while it is in WAIT_LONG or WAIT_DOUBLE.
C2_BounceRegisters ==
  /\ pb.event \in {NO_PRESS, SINGLE_TAP}
  /\ \A i \in 1 .. Len(last.evs) : last.evs[i] = SINGLE_TAP
  /\ bounce = "armed" => pressEvents = 0 /\ pb.state \in {UNINIT, RDY}
  /\ bounce = "done" /\ pb.state \in {RDY, WAIT_INACTIVE} => pressEvents = 1
  /\ bounce = "done" /\ pb.state \in {WAIT_LONG, WAIT_DOUBLE} => pressEvents = 0

C2_Witness ==
  /\ bounce = "done"
  /\ pb.state = RDY
  /\ last.op = "update"
  /\ last.from = WAIT_DOUBLE
  /\ last.evs = <<SINGLE_TAP>>
  /\ pb.event = SINGLE_TAP

\* C3 (as stated): with double-tap enabled, a second press sampled within
\* doubleTapDelay ms of the sampled release sets DOUBLE_TAP, however long the
\* first press lasted.  In WAIT_DOUBLE lockoutTimer is the time since the
\* release was sampled (it was reset by that call and by nothing since).
C3_DoubleTapWithinWindowOfRelease ==
  [][UpdateCall /\ pb.doubleTapEnabled /\ pb.state = WAIT_DOUBLE /\ ~pb.lockout
       /\ pb'.active /\ pb.lockoutTimer <= pb.doubleTapDelay
     => last'.evs = <<DOUBLE_TAP>>]_vars

\* C3 (amended): the window is measured from the update call that sampled the
\* first press: delayTimer is reset by that call and not by the release, and
\* with double-tap enabled a second press sampled in WAIT_DOUBLE (lockout
\* over) while delayTimer <= doubleTapDelay sets DOUBLE_TAP, once for the
\* sequence (the call starts the lockout and moves to WAIT_INACTIVE).
C3_DoubleTapWithinWindowOfPress ==
  [][UpdateCall =>
       /\ pb.state \in {UNINIT, RDY} /\ ~pb.lockout /\ pb'.active
            => pb'.delayTimer = 0
       /\ pb.state \in {WAIT_LONG, WAIT_DOUBLE} => pb'.delayTimer = pb.delayTimer
       /\ pb.doubleTapEnabled /\ pb.state = WAIT_DOUBLE /\ ~pb.lockout
            /\ pb'.active /\ pb.delayTimer <= pb.doubleTapDelay
            => /\ last'.evs = <<DOUBLE_TAP>>
               /\ pb'.event = DOUBLE_TAP
               /\ pb'.state = WAIT_INACTIVE
               /\ pb'.lockout /\ pb'.lockoutTimer = 0
               /\ pressEvents' = 1]_vars

C3_Witness ==
  /\ last.op = "update"
  /\ last.from = WAIT_DOUBLE
  /\ last.evs = <<DOUBLE_TAP>>
  /\ pb.state = WAIT_INACTIVE
  /\ pb.doubleTapEnabled
  /\ pb.delayTimer > 0

\* C4: with both optional gestures disabled, an update call that samples the
\* input active in RDY sets SINGLE_TAP in that call and moves to
\* WAIT_INACTIVE; from there update assigns no event, and leaves for RDY
\* exactly when it samples the input inactive; in RDY it assigns no event
\* unless it samples the input active.  Each press yields one event.
C4_SingleTapPerPress ==
  [][UpdateCall /\ ~Enabled(pb) =>
       /\ pb.state \in {UNINIT, RDY} /\ ~pb.lockout /\ pb'.active
            => /\ last'.evs = <<SINGLE_TAP>>
               /\ pb'.event = SINGLE_TAP
               /\ pb'.state = WAIT_INACTIVE
               /\ pressEvents' = 1
       /\ pb.state \in {UNINIT, RDY} /\ (pb.lockout \/ ~pb'.active)
            => last'.evs = <<>> /\ pb'.event = pb.event /\ pb'.state = RDY
       /\ pb.state = WAIT_INACTIVE
            => /\ last'.evs = <<>> /\ pb'.event = pb.event
               /\ pb'.state = (IF ~pb.lockout /\ ~pb'.active THEN RDY ELSE WAIT_INACTIVE)
               /\ pressEvents' = pressEvents]_vars

C4_Witness ==
  /\ last.op = "update"
  /\ last.from = RDY
  /\ last.evs = <<SINGLE_TAP>>
  /\ pb.state = WAIT_INACTIVE
  /\ ~Enabled(pb)
  /\ ~optEver

C6_ShortHoldIsSingleTap ==
  [][UpdateCall /\ pb.longPressEnabled /\ ~pb.doubleTapEnabled
       /\ pb.state = WAIT_LONG /\ ~pb.lockout /\ ~pb'.active
     => /\ last'.evs = <<SINGLE_TAP>>
        /\ pb'.event = SINGLE_TAP
        /\ pb'.state = RDY
        /\ pb'.lockout /\ pb'.lockoutTimer = 0
        /\ pressEvents' = 1]_vars

C6_Witness ==
  /\ last.op = "update"
  /\ last.from = WAIT_LONG
  /\ last.evs = <<SINGLE_TAP>>
  /\ pb.state = RDY
  /\ pb.lockout
  /\ pb.longPressEnabled /\ ~pb.doubleTapEnabled

\* C7: an update call in WAIT_DOUBLE with lockout inactive and delayTimer >
\* doubleTapDelay sets SINGLE_TAP and returns to RDY whatever level it samples;
\* DOUBLE_TAP is set only in WAIT_DOUBLE with delayTimer <= doubleTapDelay and
\* the input sampled active.
C7_WindowExpiryFirst ==
  [][UpdateCall =>
       /\ pb.state = WAIT_DOUBLE /\ ~pb.lockout /\ pb.delayTimer > pb.doubleTapDelay
            => /\ last'.evs = <<SINGLE_TAP>>
               /\ pb'.event = SINGLE_TAP
               /\ pb'.state = RDY
               /\ pressEvents' = 1
       /\ (\E i \in 1 .. Len(last'.evs) : last'.evs[i] = DOUBLE_TAP)
            => /\ pb.state = WAIT_DOUBLE /\ ~pb.lockout
               /\ pb.delayTimer <= pb.doubleTapDelay
               /\ pb'.active]_vars

\* the window had expired when the second press was sampled
C7_Witness ==
  /\ last.op = "update"
  /\ last.from = WAIT_DOUBLE
  /\ last.evs = <<SINGLE_TAP>>
  /\ pb.state = RDY
  /\ pb.active
  /\ pb.doubleTapEnabled

Assigns(evs, e) == \E i \in 1 .. Len(evs) : evs[i] = e

\* C8 (as stated): an update call made while neither optional gesture is
\* enabled assigns no event other than SINGLE_TAP and enters neither WAIT_LONG
\* nor WAIT_DOUBLE; update sets DOUBLE_TAP only while doubleTapEnabled is true
\* and LONG_PRESS only while longPressEnabled is true.
C8_OnlyEnabledGestures ==
  [][UpdateCall =>
       /\ ~Enabled(pb) =>
            /\ \A i \in 1 .. Len(last'.evs) : last'.evs[i] = SINGLE_TAP
            /\ pb'.state \in {WAIT_LONG, WAIT_DOUBLE} => pb'.state = pb.state
       /\ Assigns(last'.evs, DOUBLE_TAP) => pb.doubleTapEnabled
       /\ Assigns(last'.evs, LONG_PRESS) => pb.longPressEnabled]_vars

\* C8 (amended): as long as enableEvents has never been called with DOUBLE_TAP
\* or LONG_PRESS in its argument, both flags are false, the pending event is
\* NO_PRESS or SINGLE_TAP and WAIT_LONG and WAIT_DOUBLE are not reached.
\* update sets LONG_PRESS only while longPressEnabled is true; it sets
\* DOUBLE_TAP only from WAIT_DOUBLE, enters WAIT_DOUBLE only while
\* doubleTapEnabled is true and enters WAIT_LONG only while one of the flags
\* is true.  (The flags are not read again in WAIT_DOUBLE: cleared there by
\* enableEvents, a second press in the window still sets DOUBLE_TAP.)
C8_GesturesNeedEnabling ==
  /\ [](~optEver => /\ ~Enabled(pb)
                    /\ pb.event \in {NO_PRESS, SINGLE_TAP}
                    /\ pb.state \in {UNINIT, RDY, WAIT_INACTIVE})
  /\ [][UpdateCall =>
          /\ Assigns(last'.evs, LONG_PRESS) => pb.longPressEnabled
          /\ Assigns(last'.evs, DOUBLE_TAP) => pb.state = WAIT_DOUBLE
          /\ pb'.state = WAIT_DOUBLE /\ pb.state # WAIT_DOUBLE => pb.doubleTapEnabled
          /\ pb'.state = WAIT_LONG /\ pb.state # WAIT_LONG => Enabled(pb)]_vars

C8_Witness ==
  /\ last.op = "update"
  /\ last.from = WAIT_DOUBLE
  /\ last.evs = <<DOUBLE_TAP>>
  /\ ~pb.doubleTapEnabled
  /\ optEver

\* C9: when the call before a query was update and it assigned the query's
\* kind of event, the query returns true; when the call before it was the
\* same query returning true, it returns false.
C9_OneShotQueries ==
  [][/\ last.op = "update" /\ last.evs = <<SINGLE_TAP>> /\ last'.op = "singleTap" /\ SingleTap
          => last'.ret
     /\ last.op = "update" /\ last.evs = <<DOUBLE_TAP>> /\ last'.op = "doubleTap" /\ DoubleTap
          => last'.ret
     /\ last.op = "update" /\ last.evs = <<LONG_PRESS>> /\ last'.op = "longPress" /\ LongPress
          => last'.ret
     /\ last'.op \in {"singleTap", "doubleTap", "longPress"} /\ last'.again
          => ~last'.ret]_vars

C9_Witness ==
  /\ last.op = "doubleTap"
  /\ last.again
  /\ ~last.ret
  /\ pb.event = NO_PRESS

\* C10: each of singleTap, doubleTap, longPress returns true exactly when the
\* pending event is of its own kind; returning true it only clears pb.event,
\* returning false it changes no field of the struct.
QueryEffect(q, kind) ==
  /\ q.ret <=> pb.event = kind
  /\ q.ret => q.pb = [pb EXCEPT !.event = NO_PRESS]
  /\ ~q.ret => q.pb = pb

C10_QueriesMatchOwnKind ==
  [][/\ last'.op = "singleTap" /\ SingleTap
          => last'.ret = singleTap(pb).ret /\ QueryEffect(singleTap(pb), SINGLE_TAP)
     /\ last'.op = "doubleTap" /\ DoubleTap
          => last'.ret = doubleTap(pb).ret /\ QueryEffect(doubleTap(pb), DOUBLE_TAP)
     /\ last'.op = "longPress" /\ LongPress
          => last'.ret = longPress(pb).ret /\ QueryEffect(longPress(pb), LONG_PRESS)]_vars

\* a pending DOUBLE_TAP survived a call of longPress
C10_Witness ==
  /\ last.op = "longPress"
  /\ ~last.ret
  /\ pb.event = DOUBLE_TAP

\* C11: getEvent returns the event that was pending (NO_PRESS if none) and
\* leaves the struct as it was except that pb.event is NO_PRESS; a getEvent
\* called directly after a getEvent returns NO_PRESS, and once pb.event is
\* NO_PRESS only an update call that assigns an event makes it pending again.
C11_GetEventReturnsAndClears ==
  [][/\ last'.op = "getEvent" /\ GetEvent
          => /\ last'.ev = pb.event
             /\ pb' = [pb EXCEPT !.event = NO_PRESS]
             /\ last.op = "getEvent" => last'.ev = NO_PRESS
     /\ pb.event = NO_PRESS /\ pb'.event # NO_PRESS
          => UpdateCall /\ last'.evs = <<pb'.event>>]_vars

C11_Witness ==
  /\ last.op = "getEvent"
  /\ last.ev = LONG_PRESS
  /\ pb.event = NO_PRESS
  /\ pb.state = WAIT_INACTIVE

\* C12: eventDetected returns true exactly when an event is pending and
\* changes no field of the struct; a getEvent called directly after it
\* returned true returns that pending event.
C12_EventDetectedPeeks ==
  [][/\ last'.op = "eventDetected" /\ EventDetected
          => /\ last'.ret <=> pb.event # NO_PRESS
             /\ pb' = pb
     /\ last.op = "eventDetected" /\ last.ret /\ last'.op = "getEvent" /\ GetEvent
          => last'.ev # NO_PRESS /\ last'.ev = pb.event]_vars

C12_Witness ==
  /\ last.op = "eventDetected"
  /\ last.ret
  /\ pb.event = DOUBLE_TAP

\* a step that is a call of the method op: every call records itself in last,
\* and the passage of time leaves last unchanged
CallOf(op) == last'.op = op /\ ~Tick

\* the duration a setDelays argument leaves configured
Override(old, arg) == IF arg = 0 THEN old ELSE arg

\* C13: setDelays replaces each of debouncePeriod, doubleTapDelay and
\* longPressDuration by its own argument when that argument is positive and
\* leaves it unchanged when the argument is 0, independently of the other two
\* arguments; it changes no other field of the struct.
C13_SetDelaysPerArgument ==
  [][CallOf("setDelays")
     => /\ pb' = [pb EXCEPT !.debouncePeriod = Override(@, last'.args[1]),
                            !.doubleTapDelay = Override(@, last'.args[2]),
                            !.longPressDuration = Override(@, last'.args[3])]
        /\ last'.args = <<0, 0, 0>> => pb' = pb]_vars

\* only the third duration was overridden, by a call made during a gesture
C13_Witness ==
  /\ last.op = "setDelays"
  /\ last.args[1] = 0 /\ last.args[2] = 0 /\ last.args[3] > 0
  /\ pb.debouncePeriod = DEBOUNCE_PERIOD
  /\ pb.doubleTapDelay = DOUBLETAP_DELAY
  /\ pb.longPressDuration = last.args[3]
  /\ pb.state = WAIT_LONG

\* the arguments of enableEvents that contain the bit of DOUBLE_TAP, of LONG_PRESS
MasksWithDoubleTap == {2, 3, 6, 7}
MasksWithLongPress == {4, 5, 6, 7}

\* C14: enableEvents(mask) sets doubleTapEnabled to (mask contains DOUBLE_TAP)
\* and longPressEnabled to (mask contains LONG_PRESS) whatever they were,
\* changes no other field, and applied again with the same mask changes
\* nothing.
C14_EnableEventsReplaces ==
  [][CallOf("enableEvents")
     => /\ pb' = [pb EXCEPT !.doubleTapEnabled = (last'.args[1] \in MasksWithDoubleTap),
                            !.longPressEnabled = (last'.args[1] \in MasksWithLongPress)]
        /\ enableEvents(pb', last'.args[1]) = pb']_vars

\* both gestures had been enabled and enableEvents(0) disabled them
C14_Witness ==
  /\ last.op = "enableEvents"
  /\ last.args = <<0>>
  /\ optEver
  /\ ~pb.doubleTapEnabled /\ ~pb.longPressEnabled
  /\ pb.state = WAIT_DOUBLE

\* C15: a lockout is started only by an update call, which resets
\* lockoutTimer; while the lockout is active an update call does not sample
\* the input and assigns neither pb.state nor pb.event; lockoutTimer is not
\* restarted during the lockout; and the lockout is ended only by an update
\* call that finds lockoutTimer > debouncePeriod, a call that itself samples
\* nothing and decides nothing.
C15_DebounceGate ==
  [][/\ ~pb.lockout /\ pb'.lockout => UpdateCall /\ pb'.lockoutTimer = 0
     /\ pb.lockout /\ last'.op = "update" /\ ~Tick
          => /\ pb'.active = pb.active
             /\ last'.sts = <<>> /\ pb'.state = pb.state
             /\ last'.evs = <<>> /\ pb'.event = pb.event
     /\ pb.lockout /\ pb'.lockout => pb'.lockoutTimer >= pb.lockoutTimer
     /\ pb.lockout /\ ~pb'.lockout
          => UpdateCall /\ pb.lockoutTimer > pb.debouncePeriod]_vars

\* the call that ended the lockout of a press left the machine in WAIT_LONG
\* with the level sampled at the press
C15_Witness ==
  /\ last.op = "update"
  /\ last.locked
  /\ ~pb.lockout
  /\ last.from = WAIT_LONG
  /\ pb.state = WAIT_LONG
  /\ pb.lockoutTimer > pb.debouncePeriod

\* C16: an update call made while the lockout is active changes nothing in
\* the struct except that it sets lockout to false when, and only when,
\* lockoutTimer > debouncePeriod.
C16_LockoutFrame ==
  [][pb.lockout /\ last'.op = "update" /\ ~Tick
     => pb' = [pb EXCEPT !.lockout = ~(pb.lockoutTimer > pb.debouncePeriod)]]_vars

\* the lockout was kept by a call that found lockoutTimer equal to debouncePeriod
C16_Witness ==
  /\ last.op = "update"
  /\ last.locked
  /\ pb.lockout
  /\ pb.lockoutTimer = pb.debouncePeriod

\* the transitions of the state machine
Transitions ==
  { <<UNINIT, RDY>>,
    <<RDY, WAIT_LONG>>, <<RDY, WAIT_INACTIVE>>,
    <<WAIT_LONG, WAIT_INACTIVE>>, <<WAIT_LONG, WAIT_DOUBLE>>, <<WAIT_LONG, RDY>>,
    <<WAIT_DOUBLE, RDY>>, <<WAIT_DOUBLE, WAIT_INACTIVE>>,
    <<WAIT_INACTIVE, RDY>> }

\* the states a call went through: the one at entry, then those it assigned
Path(from, sts) == <<from>> \o sts

FollowsTransitions(path) ==
  \A i \in 1 .. Len(path) - 1 : <<path[i], path[i + 1]>> \in Transitions

\* C17 (as stated): every update call, the first one included, assigns
\* pb.state at most once and pb.event at most once.
C17_OneTransitionPerCall ==
  [][UpdateCall => Len(last'.sts) <= 1 /\ Len(last'.evs) <= 1]_vars

\* C17 (amended): every update call assigns pb.event at most once; a call made
\* in a state other than UNINIT makes at most one transition; the first call
\* after construction leaves UNINIT for RDY and may then make one more
\* transition, out of RDY, in the same call.
C17_OneTransitionAfterInit ==
  [][UpdateCall =>
       /\ Len(last'.evs) <= 1
       /\ FollowsTransitions(Path(pb.state, last'.sts))
       /\ pb'.state = Path(pb.state, last'.sts)[Len(last'.sts) + 1]
       /\ pb.state # UNINIT => Len(last'.sts) <= 1
       /\ pb.state = UNINIT => Len(last'.sts) \in {1, 2} /\ last'.sts[1] = RDY]_vars

C17_Witness ==
  /\ last.op = "update"
  /\ last.from = UNINIT
  /\ last.sts = <<RDY, WAIT_LONG>>
  /\ pb.state = WAIT_LONG

\* the classifications of update: state in which the event is assigned,
\* event, state assigned with it
Classifications ==
  { <<RDY, SINGLE_TAP, WAIT_INACTIVE>>,
    <<WAIT_LONG, SINGLE_TAP, RDY>>,
    <<WAIT_DOUBLE, SINGLE_TAP, RDY>>,
    <<WAIT_DOUBLE, DOUBLE_TAP, WAIT_INACTIVE>>,
    <<WAIT_LONG, LONG_PRESS, WAIT_INACTIVE>> }

\* C18: an update call that assigns pb.event ends in a state other than the
\* one it was made in; the state the event is assigned in (RDY on the first
\* call, which has left UNINIT by then), the event and the state at exit form
\* one of the classifications listed; pb.event holds that event at exit; an
\* update call never assigns NO_PRESS, and one that assigns no event leaves
\* pb.event as it was.
C18_ClassificationLeavesState ==
  [][UpdateCall =>
       /\ last'.evs # <<>>
            => /\ pb'.state # pb.state
               /\ last'.sts # <<>>
               /\ << Path(pb.state, last'.sts)[Len(last'.sts)],
                     last'.evs[1],
                     pb'.state >> \in Classifications
               /\ pb'.event = last'.evs[1]
       /\ last'.evs = <<>> => pb'.event = pb.event
       /\ ~Assigns(last'.evs, NO_PRESS)]_vars

C18_Witness ==
  /\ last.op = "update"
  /\ last.from = WAIT_DOUBLE
  /\ last.evs = <<SINGLE_TAP>>
  /\ last.was = NO_PRESS
  /\ pb.state = RDY
  /\ ~pb.active

\* C19: the machine is in WAIT_LONG or WAIT_INACTIVE only with the input last
\* sampled active, that is during a hold; no event of the press has been
\* assigned in WAIT_LONG and exactly one in WAIT_INACTIVE; an update call in
\* WAIT_INACTIVE that does not sample the input inactive assigns no event and
\* stays there, and one in WAIT_LONG that does not sample it inactive stays
\* or moves to WAIT_INACTIVE.
C19_NoAutoRepeat ==
  /\ [](/\ pb.state \in {WAIT_LONG, WAIT_INACTIVE} => pb.active
        /\ pb.state = WAIT_LONG => pressEvents = 0
        /\ pb.state = WAIT_INACTIVE => pressEvents = 1)
  /\ [][UpdateCall /\ (pb.lockout \/ pb'.active) =>
          /\ pb.state = WAIT_INACTIVE
               => last'.evs = <<>> /\ pb'.state = WAIT_INACTIVE
          /\ pb.state = WAIT_LONG
               => pb'.state \in {WAIT_LONG, WAIT_INACTIVE}]_vars

\* the event of the hold was consumed and the button, still held, sampled again
C19_Witness ==
  /\ last.op = "update"
  /\ last.from = WAIT_INACTIVE
  /\ ~last.locked
  /\ last.was = NO_PRESS
  /\ last.evs = <<>>
  /\ pb.state = WAIT_INACTIVE
  /\ pb.active
  /\ pb.event = NO_PRESS
  /\ pressEvents = 1

Rearmed == pb.state = RDY /\ ~pb.lockout

\* C20: once the input is inactive at every sample, with update called again
\* and again and the timers advancing, the machine reaches RDY with no
\* lockout from whatever state and configuration it was in; from then on it
\* stays there, update assigns no event and pb.event changes only by being
\* consumed.
C20_RearmsAfterRelease ==
  /\ (bounce = "released") ~> Rearmed
  /\ [][bounce = "released" /\ Rearmed
          => /\ Rearmed'
             /\ last'.op = "update" /\ ~Tick => last'.evs = <<>> /\ last'.sts = <<>>
             /\ pb'.event \in {pb.event, NO_PRESS}]_vars

\* after the final release the double-tap window expired: the call that
\* assigned SINGLE_TAP re-armed the machine
C20_Witness ==
  /\ bounce = "released"
  /\ Rearmed
  /\ last.op = "update"
  /\ last.from = WAIT_DOUBLE
  /\ last.evs = <<SINGLE_TAP>>
  /\ pb.event = SINGLE_TAP

====
